---- MODULE Spec2Model ----
(***************************************************************************)
(* LogAnalyzer: one manager thread (main) feeds the lines of a log file    *)
(* through a bounded buffer (buffer.c) to g_num_workers worker threads;    *)
(* each worker counts the lines that contain the search term, and after a  *)
(* pthread barrier one worker adds the per-worker counts up.               *)
(*                                                                         *)
(* Two systems are described over the same buffer actions:                 *)
(*   Spec       the program: main(), worker_function() and sigint_handler();*)
(*   QueueSpec  the buffer alone, driven through its three entry points by *)
(*              one producer thread, the consumer threads and a thread     *)
(*              that calls buffer_signal_shutdown at any moment.           *)
(* FairSpec is Spec with weak fairness of every thread; FairQueueSpec is    *)
(* QueueSpec with strong fairness of every thread's steps in the buffer.   *)
(***************************************************************************)
EXTENDS Integers, Sequences, FiniteSets, TLC

\* ------------------------------------------------------------- bounds
Capacity   == 2        \* buffer_capacity, argv[1]
NumWorkers == 2        \* g_num_workers, argv[2]
MaxRecords == 3        \* lines getline can deliver before end of file

\* ------------------------------------------------------------- values
NULL     == 0          \* the EOF marker pushed by main, and pop's "nothing"
Garbage  == -1         \* a slot of the malloc'ed lines array never written
NoThread == -1         \* the mutex is free

Workers == 0 .. (NumWorkers - 1)
MainT   == NumWorkers            \* the manager / producer thread
CtlT    == NumWorkers + 1        \* QueueSpec only: the thread that signals shutdown
Threads == 0 .. (NumWorkers + 1)
Slots   == 0 .. (Capacity - 1)

\* argv[4], and the log files argv[3] may name, as getline returns their
\* lines: the search term is in every second line, from the first line on or
\* from the second; the file may end after any line
g_search_term == <<"b", "m">>
LogLine(first, n) ==
    IF n % 2 = first THEN <<"b", "m", "\n">> ELSE <<"a", "b", "\n">>
LogFiles == { [n \in 1 .. MaxRecords |-> LogLine(first, n)] : first \in {0, 1} }

VARIABLES
    \* Buffer (buffer.h)
    lines, count, head, tail, shutting_down, mutex, cond_full, cond_empty,
    \* every thread
    pc,                    \* where the thread stands
    line_to_push,          \* the argument of the producer's buffer_push call
    push_result,           \* what the producer's last buffer_push returned
    pop_result,            \* per consumer: what its last buffer_pop returned
    \* main
    site,                  \* which call of main is in progress
    i,                     \* main's loop index
    k,                     \* index of the join loop entered when a create fails
    sigint_received_flag,
    log,                   \* the log file
    file,                  \* the lines read so far, newline removed
    \* workers
    local_matches, worker_match_counts, g_total_matches_summary,
    barrier_waiting, barrier_rc,
    \* history (not program state)
    pushed,                \* items accepted by buffer_push, in order
    popped,                \* items dequeued by buffer_pop, in order
    freed,                 \* per line: who called free() on it, in order
    hist                   \* record of further facts the properties speak of

bufv  == <<lines, count, head, tail, shutting_down>>
syncv == <<mutex, cond_full, cond_empty>>
callv == <<line_to_push, push_result, pop_result>>
mainv == <<site, i, k, sigint_received_flag, log, file>>
workv == <<local_matches, worker_match_counts, g_total_matches_summary,
           barrier_waiting, barrier_rc>>
histv == <<pushed, popped, freed, hist>>
vars  == <<bufv, syncv, pc, callv, mainv, workv, histv>>

\* ------------------------------------------------------------- buffer.c, pure parts
\* a buffer that counts as full while one slot is still free
IsFullEarly(cnt) == cnt >= Capacity - 1

\* buffer.c:50  while (buffer->count == buffer->capacity)
IsFull(cnt) == cnt = Capacity

\* buffer.c:74  while (buffer->count == 0)
IsEmpty(cnt) == cnt = 0

\* a cursor that is advanced without wrapping round
AdvanceNoWrap(x) == x + 1

\* a cursor that is never advanced
AdvanceStuck(x) == x

\* buffer.c:64 and buffer.c:90  (x + 1) % buffer->capacity
Advance(x) == (x + 1) % Capacity

\* a pop that takes the newest line instead of the oldest
PopSlotNewest(hd, tl) == (tl + Capacity - 1) % Capacity

\* buffer.c:88  the slot buffer_pop reads: lines[buffer->head]
PopSlot(hd, tl) == hd

\* buffer.c:63  the slot buffer_push writes: lines[buffer->tail]
PushSlot(hd, tl) == tl

\* a shutdown that wakes one waiter only (pthread_cond_signal)
BroadcastOne(waiters) ==
    IF waiters = {} THEN {} ELSE waiters \ {CHOOSE w \in waiters : TRUE}

\* buffer.c:43-44  pthread_cond_broadcast: the waiters still parked afterwards
Broadcast(waiters) == {}

\* buffer.c:26  current_idx = (buffer->head + i) % buffer->capacity
WindowIdx(hd, off) == (hd + off) % Capacity

\* buffer.c:51  the shutdown test made before waiting on a full buffer
PushRefusedOnEntry(sd, cnt) == IsFull(cnt) /\ sd

\* buffer.c:57  the shutdown test made after pthread_cond_wait returns in push
PushRefusedAfterWait(sd, cnt) == sd

\* a pop that waits on an empty buffer whether or not shutdown was signalled
PopNoneOnEntryNever(sd, cnt) == FALSE

\* buffer.c:75  the shutdown test made before waiting on an empty buffer
PopNoneOnEntry(sd, cnt) == IsEmpty(cnt) /\ sd

\* a pop that gives up after the wait under shutdown even with lines buffered
PopNoneAfterWaitAnyCount(sd, cnt) == sd

\* buffer.c:82  the shutdown test made after pthread_cond_wait returns in pop
PopNoneAfterWait(sd, cnt) == sd /\ cnt = 0

\* main.c:55  strstr(line_from_buffer, g_search_term) != NULL
Strstr(hay, needle) ==
    \E at \in 0 .. (Len(hay) - Len(needle)) :
        SubSeq(hay, at + 1, at + Len(needle)) = needle

\* main.c:197-199  drop the trailing newline getline leaves
Chomp(s) ==
    IF Len(s) > 0 /\ s[Len(s)] = "\n" THEN SubSeq(s, 1, Len(s) - 1) ELSE s

\* a search that reports every line as a match
MatchesAlways(p) == TRUE

\* does the line behind pointer p contain the search term
Matches(p) == Strstr(file[p], g_search_term)

\* the items in the count window, head first
Window == [n \in 1 .. count |-> lines[WindowIdx(head, n - 1)]]

\* ------------------------------------------------------------- buffer.c, steps
\* a lock that is given to every caller at once
MutexFreeAlways(m) == TRUE

\* pthread_mutex_lock returns only once no thread holds the mutex
MutexFree(m) == m = NoThread

\* pthread_mutex_lock: thread t takes the free mutex and moves from `from` to `to`
Lock(t, from, to) ==
    /\ pc[t] = from
    /\ MutexFree(mutex)
    /\ mutex' = t
    /\ pc' = [pc EXCEPT ![t] = to]
    /\ UNCHANGED <<bufv, cond_full, cond_empty, callv, mainv, workv, histv>>

\* a push that wakes nobody
SignalEmptyNone(t, to) ==
    /\ pc' = [pc EXCEPT ![t] = to]
    /\ cond_empty' = cond_empty

\* pthread_cond_signal(&cond_empty) by t, which moves to `to`: one waiter, if any
SignalEmpty(t, to) ==
    IF cond_empty = {}
    THEN /\ pc' = [pc EXCEPT ![t] = to]
         /\ cond_empty' = cond_empty
    ELSE \E w \in cond_empty :
            /\ cond_empty' = cond_empty \ {w}
            /\ pc' = [pc EXCEPT ![t] = to, ![w] = "pop_woken"]

\* pthread_cond_signal(&cond_full) by t, which moves to `to`: one waiter, if any
SignalFull(t, to) ==
    IF cond_full = {}
    THEN /\ pc' = [pc EXCEPT ![t] = to]
         /\ cond_full' = cond_full
    ELSE \E w \in cond_full :
            /\ cond_full' = cond_full \ {w}
            /\ pc' = [pc EXCEPT ![t] = to, ![w] = "push_woken"]

\* buffer_init (buffer.c:5-19)
buffer_init ==
    /\ lines = [s \in Slots |-> Garbage]
    /\ count = 0
    /\ head = 0
    /\ tail = 0
    /\ shutting_down = FALSE
    /\ mutex = NoThread
    /\ cond_full = {}
    /\ cond_empty = {}

\* buffer_signal_shutdown, line 40
ShutdownLock(t) == Lock(t, "sd_lock", "sd_body")

\* buffer_signal_shutdown, lines 41-45: set the flag, broadcast both conditions
ShutdownBody(t) ==
    /\ pc[t] = "sd_body"
    /\ mutex = t
    /\ shutting_down' = TRUE
    /\ cond_empty' = Broadcast(cond_empty)
    /\ cond_full' = Broadcast(cond_full)
    /\ pc' = [x \in Threads |->
                IF x = t THEN "sd_ret"
                ELSE IF x \in cond_empty \ cond_empty' THEN "pop_woken"
                ELSE IF x \in cond_full \ cond_full' THEN "push_woken"
                ELSE pc[x]]
    /\ mutex' = NoThread
    /\ hist' = [hist EXCEPT !.drained = @ \/ count = 0,
                            !.sdWoke = @ \cup cond_empty \cup cond_full]
    /\ UNCHANGED <<lines, count, head, tail, callv, mainv, workv,
                   pushed, popped, freed>>

\* buffer_push, line 49
PushLock(t) == Lock(t, "push_lock", "push_top")

\* buffer_push with the mutex held at the loop test of line 50: refuse (51-53),
\* wait (55), or store the line, signal one consumer and return true (63-69)
PushTop(t) ==
    /\ pc[t] = "push_top"
    /\ mutex = t
    /\ mutex' = NoThread
    /\ IF IsFull(count)
       THEN IF PushRefusedOnEntry(shutting_down, count)
            THEN /\ push_result' = FALSE
                 /\ pc' = [pc EXCEPT ![t] = "push_ret"]
                 /\ UNCHANGED <<bufv, cond_full, cond_empty, pushed, hist>>
            ELSE /\ cond_full' = cond_full \cup {t}
                 /\ pc' = [pc EXCEPT ![t] = "push_wait"]
                 /\ hist' = [hist EXCEPT !.waited = TRUE]
                 /\ UNCHANGED <<bufv, cond_empty, push_result, pushed>>
       ELSE /\ lines' = [lines EXCEPT ![PushSlot(head, tail)] = line_to_push]
            /\ tail' = Advance(tail)
            /\ count' = count + 1
            /\ SignalEmpty(t, "push_ret")
            /\ push_result' = TRUE
            /\ pushed' = Append(pushed, line_to_push)
            /\ UNCHANGED <<head, shutting_down, cond_full, hist>>
    /\ UNCHANGED <<line_to_push, pop_result, mainv, workv, popped, freed>>

\* buffer_push, line 55: pthread_cond_wait takes the mutex again once woken
PushRelock(t) == Lock(t, "push_woken", "push_after")

\* buffer_push, lines 57-61: after the wait, refuse under shutdown, else loop
PushAfter(t) ==
    /\ pc[t] = "push_after"
    /\ mutex = t
    /\ IF PushRefusedAfterWait(shutting_down, count)
       THEN /\ mutex' = NoThread
            /\ push_result' = FALSE
            /\ pc' = [pc EXCEPT ![t] = "push_ret"]
       ELSE /\ pc' = [pc EXCEPT ![t] = "push_top"]
            /\ UNCHANGED <<mutex, push_result>>
    /\ UNCHANGED <<bufv, cond_full, cond_empty, line_to_push, pop_result,
                   mainv, workv, histv>>

\* buffer_pop, line 73
PopLock(t) == Lock(t, "pop_lock", "pop_top")

\* buffer_pop with the mutex held at the loop test of line 74: return NULL
\* (75-78), wait (80), or take the line at head, signal the producer and
\* return it (88-95)
PopTop(t) ==
    /\ pc[t] = "pop_top"
    /\ mutex = t
    /\ mutex' = NoThread
    /\ IF IsEmpty(count)
       THEN IF PopNoneOnEntry(shutting_down, count)
            THEN /\ pop_result' = [pop_result EXCEPT ![t] = NULL]
                 /\ pc' = [pc EXCEPT ![t] = "pop_ret"]
                 /\ hist' = [hist EXCEPT !.deq[t] = FALSE,
                                         !.issued[t] = FALSE,
                                         !.overtaken[t] = FALSE]
                 /\ UNCHANGED <<bufv, cond_full, cond_empty, popped>>
            ELSE /\ cond_empty' = cond_empty \cup {t}
                 /\ pc' = [pc EXCEPT ![t] = "pop_wait"]
                 /\ hist' = [hist EXCEPT !.waited = TRUE]
                 /\ UNCHANGED <<bufv, cond_full, pop_result, popped>>
       ELSE /\ pop_result' = [pop_result EXCEPT ![t] = lines[PopSlot(head, tail)]]
            /\ lines' = [lines EXCEPT ![PopSlot(head, tail)] = NULL]
            /\ head' = Advance(head)
            /\ count' = count - 1
            /\ SignalFull(t, "pop_ret")
            /\ popped' = Append(popped, lines[PopSlot(head, tail)])
            /\ hist' = [hist EXCEPT
                           !.deq[t] = TRUE,
                           !.drained = @ \/ (shutting_down /\ count = 1),
                           !.issued[t] = FALSE,
                           !.overtaken =
                               [x \in Threads |-> x # t /\ hist.issued[x]]]
            /\ UNCHANGED <<tail, shutting_down, cond_empty>>
    /\ UNCHANGED <<line_to_push, push_result, mainv, workv, pushed, freed>>

\* buffer_pop, line 80: pthread_cond_wait takes the mutex again once woken
PopRelock(t) == Lock(t, "pop_woken", "pop_after")

\* buffer_pop, lines 82-86: after the wait, NULL under shutdown with nothing
\* buffered, else loop
PopAfter(t) ==
    /\ pc[t] = "pop_after"
    /\ mutex = t
    /\ IF PopNoneAfterWait(shutting_down, count)
       THEN /\ mutex' = NoThread
            /\ pop_result' = [pop_result EXCEPT ![t] = NULL]
            /\ pc' = [pc EXCEPT ![t] = "pop_ret"]
            /\ hist' = [hist EXCEPT !.deq[t] = FALSE,
                                    !.issued[t] = FALSE,
                                    !.overtaken[t] = FALSE]
       ELSE /\ pc' = [pc EXCEPT ![t] = "pop_top"]
            /\ UNCHANGED <<mutex, pop_result, hist>>
    /\ UNCHANGED <<bufv, cond_full, cond_empty, line_to_push, push_result,
                   mainv, workv, pushed, popped, freed>>

\* ------------------------------------------------------------- history
ByMain    == "main"              \* free() at main.c:208 or main.c:217
ByWorker  == "worker"            \* free() at main.c:58
ByDestroy == "buffer_destroy"    \* free() at buffer.c:28

HistInit ==
    [ deq       |-> [t \in Threads |-> FALSE],  \* did t's last buffer_pop take an item
      drained   |-> FALSE,                      \* shutdown was set with nothing buffered
      late      |-> [t \in Threads |-> FALSE],  \* t's buffer_pop was called after that
      nsum      |-> 0,                          \* how often the total was computed
      written   |-> [w \in Workers |-> 0],      \* writes of worker_match_counts[w]
      sigAtPush |-> 0,                          \* line being pushed, blocked, at SIGINT
      sdWoke    |-> {},                         \* threads a shutdown call found waiting
      waited    |-> FALSE,                      \* some call has waited on a condition
      recAtSig  |-> -1,                         \* lines stored when SIGINT came, or -1
      issued    |-> [t \in Threads |-> FALSE],  \* t's buffer_pop, not yet returned, was
                                                \* called with count > 0 and no shutdown
      overtaken |-> [t \in Threads |-> FALSE] ] \* and another thread dequeued since

\* the call of buffer_pop by thread t (main.c:46); what the previous call
\* returned is forgotten
CallPop(t) ==
    /\ pc' = [pc EXCEPT ![t] = "pop_lock"]
    /\ pop_result' = [pop_result EXCEPT ![t] = NULL]
    /\ hist' = [hist EXCEPT !.late[t] = hist.drained, !.deq[t] = FALSE,
                            !.issued[t] = (count > 0 /\ ~shutting_down),
                            !.overtaken[t] = FALSE]

\* ------------------------------------------------------------- worker_function
BARRIER_SERIAL == -1             \* PTHREAD_BARRIER_SERIAL_THREAD

\* main.c:68-70  for (i = 0; i < g_num_workers; i++) total += worker_match_counts[i]
RECURSIVE AddCounts(_, _, _)
AddCounts(total, c, n) ==
    IF n = 0 THEN total ELSE AddCounts(total, c, n - 1) + c[n - 1]

\* every worker writes the first slot
SlotOfZero(w) == 0

\* main.c:61  the slot a worker writes
SlotOf(w) == w

\* pthread_barrier_wait: which of the released threads may be told it is the
\* serial thread (exactly one, unspecified which)
SerialChoices(arrived) == arrived

\* every thread released from the barrier computes the total
IsSerialAlways(rc) == TRUE

\* main.c:66  does this return value make the thread compute the total
IsSerial(rc) == rc = BARRIER_SERIAL

\* main.c:37-46: the new thread starts worker_function and makes its first
\* call of buffer_pop
WorkerStart(w) ==
    /\ w \in Workers
    /\ pc[w] = "w_start"
    /\ CallPop(w)
    /\ UNCHANGED <<bufv, syncv, line_to_push, push_result, mainv, workv,
                   pushed, popped, freed>>

\* main.c:48-62: the worker looks at what buffer_pop returned: on NULL it
\* leaves the loop and stores its count in its slot; otherwise the line is
\* searched, counted, freed, and buffer_pop is called again
WorkerGot(w) ==
    /\ w \in Workers
    /\ pc[w] = "pop_ret"
    /\ IF pop_result[w] = NULL
       THEN /\ worker_match_counts' =
                  [worker_match_counts EXCEPT ![SlotOf(w)] = local_matches[w]]
            /\ hist' = [hist EXCEPT !.written[SlotOf(w)] = @ + 1]
            /\ pc' = [pc EXCEPT ![w] = "w_arrive"]
            /\ UNCHANGED <<local_matches, freed, pop_result>>
       ELSE /\ local_matches' =
                  [local_matches EXCEPT
                      ![w] = IF Matches(pop_result[w]) THEN @ + 1 ELSE @]
            /\ freed' = [freed EXCEPT ![pop_result[w]] = Append(@, ByWorker)]
            /\ CallPop(w)
            /\ UNCHANGED worker_match_counts
    /\ UNCHANGED <<bufv, syncv, line_to_push, push_result, mainv,
                   g_total_matches_summary, barrier_waiting, barrier_rc,
                   pushed, popped>>

\* main.c:65, 72-77: pthread_barrier_wait on a barrier initialised for
\* g_num_workers (main.c:134): the caller blocks; the arrival that completes
\* the count releases everyone, one of them with PTHREAD_BARRIER_SERIAL_THREAD;
\* the others have nothing left to do but return
BarrierArrive(w) ==
    /\ w \in Workers
    /\ pc[w] = "w_arrive"
    /\ LET arrived == barrier_waiting \cup {w} IN
       IF Cardinality(arrived) = NumWorkers
       THEN \E s \in SerialChoices(arrived) :
               /\ barrier_rc' = [x \in Workers |->
                                    IF x \notin arrived THEN barrier_rc[x]
                                    ELSE IF x = s THEN BARRIER_SERIAL ELSE 0]
               /\ pc' = [x \in Threads |->
                            IF x \notin arrived THEN pc[x]
                            ELSE IF IsSerial(barrier_rc'[x]) THEN "w_serial"
                            ELSE "w_done"]
               /\ barrier_waiting' = {}
       ELSE /\ barrier_waiting' = arrived
            /\ pc' = [pc EXCEPT ![w] = "w_inbarrier"]
            /\ UNCHANGED barrier_rc
    /\ UNCHANGED <<bufv, syncv, callv, mainv, local_matches,
                   worker_match_counts, g_total_matches_summary, histv>>

\* main.c:66-71, 77: the serial thread adds the slots up and returns
WorkerSum(w) ==
    /\ w \in Workers
    /\ pc[w] = "w_serial"
    /\ g_total_matches_summary' =
           AddCounts(g_total_matches_summary, worker_match_counts, NumWorkers)
    /\ hist' = [hist EXCEPT !.nsum = @ + 1]
    /\ pc' = [pc EXCEPT ![w] = "w_done"]
    /\ UNCHANGED <<bufv, syncv, callv, mainv, local_matches,
                   worker_match_counts, barrier_waiting, barrier_rc,
                   pushed, popped, freed>>

\* ------------------------------------------------------------- sigint_handler
\* main.c:26-35: the handler only sets the flag
sigint_handler ==
    /\ sigint_received_flag = 0
    /\ pc[MainT] \notin {"m_done", "m_exit_fail"}
    /\ sigint_received_flag' = 1
    /\ hist' = [hist EXCEPT
                   !.sigAtPush = IF pc[MainT] = "push_wait" /\ site = "rec"
                                 THEN line_to_push ELSE 0,
                   !.recAtSig = Len(SelectSeq(pushed, LAMBDA x : x # NULL))]
    /\ UNCHANGED <<bufv, syncv, pc, callv, site, i, k, log, file, workv,
                   pushed, popped, freed>>

\* ------------------------------------------------------------- main
\* buffer_destroy (buffer.c:21-37): free what is left in the count window
buffer_destroy ==
    /\ freed' = [r \in DOMAIN freed |->
                    IF \E n \in 0 .. (count - 1) :
                          lines[WindowIdx(head, n)] = r
                    THEN Append(freed[r], ByDestroy) ELSE freed[r]]
    /\ lines' = [s \in Slots |-> Garbage]

\* the call of buffer_signal_shutdown by main, from the place named `at`
MainCallShutdown(at) ==
    /\ site' = at
    /\ pc' = [pc EXCEPT ![MainT] = "sd_lock"]

\* the call of buffer_push(line) by main, from the place named `at`
MainCallPush(at, line) ==
    /\ site' = at
    /\ line_to_push' = line
    /\ pc' = [pc EXCEPT ![MainT] = "push_lock"]

\* main.c:189: getline delivers the next line of the file, or returns -1 (end
\* of file, or a read the signal interrupted) and the loop is left
ReadLine ==
    \/ /\ Len(file) < MaxRecords
       /\ file' = Append(file, log[Len(file) + 1])
       /\ pc' = [pc EXCEPT ![MainT] = "m_check"]
    \/ /\ file' = file
       /\ pc' = [pc EXCEPT ![MainT] = "m_post"]

\* main.c:228-236: after the loop: with the flag set signal shutdown; then
\* push the first NULL
AfterLoop ==
    IF sigint_received_flag # 0
    THEN /\ MainCallShutdown("post")
         /\ UNCHANGED line_to_push
    ELSE MainCallPush("eof", NULL)

\* main.c:134-155: pthread_barrier_init, calloc or malloc fails: main undoes
\* what it has set up and returns before any thread exists
SetupFail ==
    /\ pc[MainT] = "m_create"
    /\ i = 0
    /\ buffer_destroy
    /\ pc' = [pc EXCEPT ![MainT] = "m_exit_fail"]
    /\ UNCHANGED <<count, head, tail, shutting_down, syncv, callv, mainv,
                   workv, pushed, popped, hist>>

\* main.c:159-161: pthread_create succeeds: thread i exists and will run
\* worker_function; after the last one main goes on to open the file
CreateOk ==
    /\ pc[MainT] = "m_create"
    /\ i < NumWorkers
    /\ i' = i + 1
    /\ pc' = [pc EXCEPT ![i] = "w_start",
                        ![MainT] = IF i + 1 = NumWorkers THEN "m_fopen"
                                   ELSE "m_create"]
    /\ UNCHANGED <<bufv, syncv, callv, site, k, sigint_received_flag, log, file,
                   workv, histv>>

\* main.c:161-164: pthread_create fails for worker i: set the flag and signal
\* shutdown on the buffer
CreateFail ==
    /\ pc[MainT] = "m_create"
    /\ i < NumWorkers
    /\ sigint_received_flag' = 1
    /\ MainCallShutdown("create_fail")
    /\ UNCHANGED <<bufv, syncv, callv, i, k, log, file, workv, histv>>

\* main.c:166: buffer_signal_shutdown has returned on the failure path
FailShutdownDone ==
    /\ pc[MainT] = "sd_ret"
    /\ site = "create_fail"
    /\ k' = 0
    /\ site' = "none"
    /\ pc' = [pc EXCEPT ![MainT] = "m_failjoin"]
    /\ UNCHANGED <<bufv, syncv, callv, i, sigint_received_flag, log, file,
                   workv, histv>>

\* main.c:166-171: join the workers created before the failure, in order, then
\* cleanup_resources(NULL) and return EXIT_FAILURE
FailJoin ==
    /\ pc[MainT] = "m_failjoin"
    /\ IF k < i
       THEN /\ pc[k] = "w_done"
            /\ k' = k + 1
            /\ UNCHANGED <<lines, freed, pc>>
       ELSE /\ buffer_destroy
            /\ pc' = [pc EXCEPT ![MainT] = "m_exit_fail"]
            /\ UNCHANGED k
    /\ UNCHANGED <<count, head, tail, shutting_down, syncv, callv, site, i,
                   sigint_received_flag, log, file, workv, pushed, popped, hist>>

\* main.c:176, 188-189: fopen succeeds and getline is called
FopenOk ==
    /\ pc[MainT] = "m_fopen"
    /\ ReadLine
    /\ UNCHANGED <<bufv, syncv, callv, site, i, k, sigint_received_flag, log,
                   workv, histv>>

\* main.c:177-181: fopen fails: set the flag and signal shutdown on the buffer
FopenFail ==
    /\ pc[MainT] = "m_fopen"
    /\ sigint_received_flag' = 1
    /\ MainCallShutdown("fopen_fail")
    /\ UNCHANGED <<bufv, syncv, callv, i, k, log, file, workv, histv>>

\* main.c:220-230: the else branch taken when the file is not open signals
\* shutdown once more only if the flag is clear; then the code after the loop
FopenElse ==
    /\ pc[MainT] = "sd_ret"
    /\ site = "fopen_fail"
    /\ IF sigint_received_flag = 0
       THEN /\ MainCallShutdown("else")
            /\ UNCHANGED line_to_push
       ELSE AfterLoop
    /\ i' = 0
    /\ UNCHANGED <<bufv, syncv, push_result, pop_result, k,
                   sigint_received_flag, log, file, workv, histv>>

\* a producer that pushes its line without looking at the flag
FlagSeenNever(flag) == FALSE

\* main.c:190  if (sigint_received_flag)
FlagSeen(flag) == flag # 0

\* main.c:190-205: with the flag set, signal shutdown and leave the loop;
\* otherwise strip the newline and push the line
CheckAndPush ==
    /\ pc[MainT] = "m_check"
    /\ IF FlagSeen(sigint_received_flag)
       THEN /\ MainCallShutdown("sigint_break")
            /\ UNCHANGED <<file, line_to_push>>
       ELSE /\ file' = [file EXCEPT ![Len(file)] = Chomp(@)]
            /\ MainCallPush("rec", Len(file))
    /\ UNCHANGED <<bufv, syncv, push_result, pop_result, i, k,
                   sigint_received_flag, log, workv, histv>>

\* main.c:193, 216-218: shutdown signalled from inside the loop has returned:
\* break, and free the line getline had just delivered
SigintBreak ==
    /\ pc[MainT] = "sd_ret"
    /\ site = "sigint_break"
    /\ freed' = [freed EXCEPT ![Len(file)] = Append(@, ByMain)]
    /\ site' = "none"
    /\ pc' = [pc EXCEPT ![MainT] = "m_post"]
    /\ UNCHANGED <<bufv, syncv, callv, i, k, sigint_received_flag, log, file,
                   workv, pushed, popped, hist>>

\* main.c:205-213, 189: buffer_push of a line has returned: on false free the
\* line and leave the loop, on true sleep and call getline again
PushedRecord ==
    /\ pc[MainT] = "push_ret"
    /\ site = "rec"
    /\ IF push_result
       THEN /\ ReadLine
            /\ UNCHANGED freed
       ELSE /\ freed' = [freed EXCEPT ![line_to_push] = Append(@, ByMain)]
            /\ pc' = [pc EXCEPT ![MainT] = "m_post"]
            /\ UNCHANGED file
    /\ site' = "none"
    /\ UNCHANGED <<bufv, syncv, callv, i, k, sigint_received_flag, log,
                   workv, pushed, popped, hist>>

\* main.c:228-236: the code after the loop
PostLoop ==
    /\ pc[MainT] = "m_post"
    /\ AfterLoop
    /\ i' = 0
    /\ UNCHANGED <<bufv, syncv, push_result, pop_result, k,
                   sigint_received_flag, log, file, workv, histv>>

\* main.c:230-236: that buffer_signal_shutdown has returned: push the first NULL
PostShutdownDone ==
    /\ pc[MainT] = "sd_ret"
    /\ site \in {"post", "else"}
    /\ MainCallPush("eof", NULL)
    /\ i' = 0
    /\ UNCHANGED <<bufv, syncv, push_result, pop_result, k,
                   sigint_received_flag, log, file, workv, histv>>

\* a loop that pushes one NULL more than there are workers
MoreEofOneMore(n) == n < NumWorkers

\* main.c:235  i++ and the test i < g_num_workers, after the n-th NULL (from 0)
MoreEof(n) == n + 1 < NumWorkers

\* main.c:235-241: buffer_push(NULL) has returned: false ends the loop, true
\* goes on to the next worker's NULL; after the loop the joins begin
PushedEof ==
    /\ pc[MainT] = "push_ret"
    /\ site = "eof"
    /\ IF push_result /\ MoreEof(i)
       THEN /\ i' = i + 1
            /\ MainCallPush("eof", NULL)
       ELSE /\ i' = 0
            /\ site' = "none"
            /\ pc' = [pc EXCEPT ![MainT] = "m_join"]
            /\ UNCHANGED line_to_push
    /\ UNCHANGED <<bufv, syncv, push_result, pop_result, k,
                   sigint_received_flag, log, file, workv, histv>>

\* main.c:244-264: join every worker, in order, then buffer_destroy and
\* return EXIT_SUCCESS
Join ==
    /\ pc[MainT] = "m_join"
    /\ IF i < NumWorkers
       THEN /\ pc[i] = "w_done"
            /\ i' = i + 1
            /\ UNCHANGED <<lines, freed, pc>>
       ELSE /\ buffer_destroy
            /\ pc' = [pc EXCEPT ![MainT] = "m_done"]
            /\ UNCHANGED i
    /\ UNCHANGED <<count, head, tail, shutting_down, syncv, callv, site, k,
                   sigint_received_flag, log, file, workv, pushed, popped, hist>>

\* ------------------------------------------------------------- the program
\* main.c:12-19, 133-156: the state when main starts creating the workers
Init ==
    /\ buffer_init
    /\ pc = [t \in Threads |->
                IF t = MainT THEN "m_create"
                ELSE IF t = CtlT THEN "absent" ELSE "w_unborn"]
    /\ line_to_push = NULL
    /\ push_result = FALSE
    /\ pop_result = [w \in Workers |-> NULL]
    /\ site = "none"
    /\ i = 0
    /\ k = 0
    /\ sigint_received_flag = 0
    /\ log \in LogFiles
    /\ file = <<>>
    /\ local_matches = [w \in Workers |-> 0]
    /\ worker_match_counts = [w \in Workers |-> 0]
    /\ g_total_matches_summary = 0
    /\ barrier_waiting = {}
    /\ barrier_rc = [w \in Workers |-> 0]
    /\ pushed = <<>>
    /\ popped = <<>>
    /\ freed = [r \in 1 .. MaxRecords |-> <<>>]
    /\ hist = HistInit

\* a step of the buffer code made by thread t
BufferStep(t) ==
    \/ PushLock(t) \/ PushTop(t) \/ PushRelock(t) \/ PushAfter(t)
    \/ PopLock(t) \/ PopTop(t) \/ PopRelock(t) \/ PopAfter(t)
    \/ ShutdownLock(t) \/ ShutdownBody(t)

MainStep ==
    \/ SetupFail \/ CreateOk \/ CreateFail \/ FailShutdownDone \/ FailJoin
    \/ FopenOk \/ FopenFail \/ FopenElse \/ CheckAndPush \/ SigintBreak
    \/ PushedRecord \/ PostLoop \/ PostShutdownDone \/ PushedEof \/ Join
    \/ BufferStep(MainT)

WorkerStep(w) ==
    \/ WorkerStart(w) \/ WorkerGot(w) \/ BarrierArrive(w) \/ WorkerSum(w)
    \/ BufferStep(w)

Next ==
    \/ MainStep
    \/ \E w \in Workers : WorkerStep(w)
    \/ sigint_handler

Spec == Init /\ [][Next]_vars

FairSpec ==
    /\ Init /\ [][Next]_vars
    /\ WF_vars(MainStep)
    /\ \A w \in Workers : WF_vars(WorkerStep(w))

\* ------------------------------------------------------------- the buffer alone
\* buffer.h:24-57: the buffer right after buffer_init, with one producer
\* thread, the consumer threads and the signalling thread about to use it
QueueInit ==
    /\ buffer_init
    /\ pc = [t \in Threads |-> "idle"]
    /\ line_to_push = NULL
    /\ push_result = FALSE
    /\ pop_result = [w \in Workers |-> NULL]
    /\ site = "none"
    /\ i = 0
    /\ k = 0
    /\ sigint_received_flag = 0
    /\ log = <<>>
    /\ file = <<>>
    /\ local_matches = [w \in Workers |-> 0]
    /\ worker_match_counts = [w \in Workers |-> 0]
    /\ g_total_matches_summary = 0
    /\ barrier_waiting = {}
    /\ barrier_rc = [w \in Workers |-> 0]
    /\ pushed = <<>>
    /\ popped = <<>>
    /\ freed = [r \in 1 .. MaxRecords |-> <<>>]
    /\ hist = HistInit

\* buffer.h:42: the producer calls buffer_push with its next line
ProducerCall ==
    /\ pc[MainT] \in {"idle", "push_ret"}
    /\ i < MaxRecords
    /\ i' = i + 1
    /\ line_to_push' = i + 1
    /\ pc' = [pc EXCEPT ![MainT] = "push_lock"]
    /\ UNCHANGED <<bufv, syncv, push_result, pop_result, site, k,
                   sigint_received_flag, log, file, workv, histv>>

\* buffer.h:50: a consumer calls buffer_pop
ConsumerCall(w) ==
    /\ w \in Workers
    /\ pc[w] \in {"idle", "pop_ret"}
    /\ CallPop(w)
    /\ UNCHANGED <<bufv, syncv, line_to_push, push_result, mainv, workv,
                   pushed, popped, freed>>

\* buffer.h:57: some thread calls buffer_signal_shutdown
ShutdownCall ==
    /\ pc[CtlT] \in {"idle", "sd_ret"}
    /\ pc' = [pc EXCEPT ![CtlT] = "sd_lock"]
    /\ UNCHANGED <<bufv, syncv, callv, mainv, workv, histv>>

QueueNext ==
    \/ ProducerCall
    \/ \E w \in Workers : ConsumerCall(w)
    \/ ShutdownCall
    \/ \E t \in Threads : BufferStep(t)

QueueSpec == QueueInit /\ [][QueueNext]_vars

\* the same, where a thread inside a buffer function that can go on again and
\* again does go on: it gets the mutex in the end and runs to its return
FairQueueSpec ==
    /\ QueueInit /\ [][QueueNext]_vars
    /\ \A t \in Threads : SF_vars(BufferStep(t))

\* ------------------------------------------------------------- properties
\* helpers of the properties below
IsPrefix(a, b) == Len(a) <= Len(b) /\ SubSeq(b, 1, Len(a)) = a
Occ(x, q)      == Cardinality({n \in 1 .. Len(q) : q[n] = x})
Records        == 1 .. MaxRecords
RECURSIVE SumOver(_, _)
SumOver(f, S) ==
    IF S = {} THEN 0
    ELSE LET x == CHOOSE y \in S : TRUE IN f[x] + SumOver(f, S \ {x})

\* C1: in every state of the buffer, whatever the interleaving of buffer_push,
\* buffer_pop and buffer_signal_shutdown, 0 <= count <= capacity, head and
\* tail are indices of the array, and tail = (head + count) mod capacity.
C1_RingInvariant ==
    /\ 0 <= count /\ count <= Capacity
    /\ head \in Slots
    /\ tail \in Slots
    /\ tail = (head + count) % Capacity

\* C1 witness: a full buffer whose head has moved off slot 0, after shutdown
C1_Witness ==
    /\ count = Capacity
    /\ head # 0
    /\ shutting_down
    /\ Len(popped) >= 1

\* C2: the items buffer_pop has taken out, in the order the pops held the
\* lock, are always a prefix of the items buffer_push has accepted.
C2_Fifo == IsPrefix(popped, pushed)

\* C2 witness: more items than the buffer holds have gone through it, taken
\* out by different consumers
C2_Witness ==
    /\ Len(popped) > Capacity
    /\ \A w \in Workers : hist.deq[w]

\* C3: no line is delivered twice or lost.  At all times a line has been
\* taken out of the buffer at most once and freed at most once.  When main has
\* torn the buffer down, every line buffer_push accepted was either returned
\* by exactly one buffer_pop (and freed by the worker that got it) or was
\* still in the count window and freed by buffer_destroy; and every line that
\* was read but not accepted was freed by main and never reached a worker.
C3_NoLossNoDup ==
    \A r \in Records :
        /\ Occ(r, popped) <= 1
        /\ Len(freed[r]) <= 1
        /\ Occ(r, pushed) <= 1
        /\ (pc[MainT] \in {"m_done", "m_exit_fail"} /\ r <= Len(file)) =>
              IF Occ(r, pushed) = 1
              THEN \/ Occ(r, popped) = 1 /\ freed[r] = <<ByWorker>>
                   \/ Occ(r, popped) = 0 /\ freed[r] = <<ByDestroy>>
              ELSE Occ(r, popped) = 0 /\ freed[r] = <<ByMain>>

\* C3 witness: the run is over; the last line read was never pushed and main
\* freed it, the lines before it went through the buffer to the workers, and
\* the buffer was torn down with an EOF marker still in it
C3_Witness ==
    /\ pc[MainT] = "m_done"
    /\ Len(file) = MaxRecords
    /\ freed[MaxRecords] = <<ByMain>>
    /\ \A r \in 1 .. (MaxRecords - 1) : freed[r] = <<ByWorker>> /\ Occ(r, popped) = 1
    /\ count > 0

\* C4: of the workers released from the barrier exactly one computes the
\* total, once; the total then equals the sum of all the workers' counts,
\* whatever the order of arrival, and keeps that value.
C4_OneAggregate ==
    /\ hist.nsum <= 1
    /\ Cardinality({w \in Workers : pc[w] = "w_serial"}) <= 1
    /\ hist.nsum = 0 => g_total_matches_summary = 0
    /\ hist.nsum = 1 =>
          g_total_matches_summary = SumOver(local_matches, Workers)
    /\ (\A w \in Workers : pc[w] = "w_done") => hist.nsum = 1

\* C4 witness: every worker has returned, each had counted a match, and the
\* total is their sum
C4_Witness ==
    /\ \A w \in Workers : pc[w] = "w_done"
    /\ hist.nsum = 1
    /\ Cardinality({w \in Workers : local_matches[w] > 0}) >= 2
    /\ g_total_matches_summary >= 2

\* where a worker stands once it has left its pop loop
LeftLoop == {"w_arrive", "w_inbarrier", "w_serial", "w_done"}

\* the whole run is over: workers through the barrier and joined, total computed
RunDone ==
    /\ pc[MainT] = "m_done"
    /\ \A w \in Workers : pc[w] = "w_done"
    /\ hist.nsum = 1

\* C5: once all workers have been started, the run reaches its end under weak
\* fairness of every thread, whenever the interrupt comes and whether or not
\* every EOF marker could be pushed; and a worker only leaves its loop on NULL,
\* either an EOF marker it took out or shutdown seen with nothing buffered.
C5_Terminates ==
    /\ (pc[MainT] = "m_fopen") ~> RunDone
    /\ [](\A w \in Workers :
            pc[w] \in LeftLoop =>
               /\ pop_result[w] = NULL
               /\ hist.deq[w] \/ shutting_down)

\* C5 witness: the run is over although a push of an EOF marker was refused
\* and main stopped pushing them; one worker left on a marker, another on
\* shutdown with nothing buffered
C5_Witness ==
    /\ RunDone
    /\ ~push_result
    /\ Occ(NULL, pushed) < NumWorkers
    /\ \E w \in Workers : hist.deq[w]
    /\ \E w \in Workers : ~hist.deq[w]

\* C6: once shutdown has been signalled on the buffer, no buffer_push stores
\* its line: every call returns false, whether the buffer is full or not.
C6_PushRefusedAfterShutdown ==
    [][shutting_down => (pushed' = pushed /\ count' <= count)]_vars

\* C7: once shutdown has been signalled and the buffer has been seen with
\* nothing in it, every buffer_pop called from then on returns NULL.
C7_DrainedStaysNone ==
    \A t \in Workers :
        (pc[t] = "pop_ret" /\ hist.late[t]) => pop_result[t] = NULL

\* the steps of one buffer_pop, taken one at a time: on an empty buffer
\* without shutdown the caller is parked, and a parked caller only gets going
\* again through a push or a shutdown call; a pop that finds shutdown set and
\* nothing buffered returns NULL at once; a pop that finds a line buffered
\* returns the oldest one, shutdown or not; under shutdown no pop is parked.
PopStepwise ==
    /\ [][\A t \in Workers :
            /\ (pc[t] = "pop_top" /\ pc'[t] # "pop_top") =>
                  IF count = 0
                  THEN IF shutting_down
                       THEN /\ pc'[t] = "pop_ret"
                            /\ pop_result'[t] = NULL
                            /\ UNCHANGED <<lines, count, head, tail, popped>>
                       ELSE pc'[t] = "pop_wait"
                  ELSE /\ pc'[t] = "pop_ret"
                       /\ pop_result'[t] = Window[1]
                       /\ popped' = Append(popped, Window[1])
                       /\ count' = count - 1
            /\ (pc[t] = "pop_after" /\ pc'[t] # "pop_after") =>
                  IF shutting_down /\ count = 0
                  THEN pc'[t] = "pop_ret" /\ pop_result'[t] = NULL
                  ELSE pc'[t] = "pop_top"
            /\ (pc[t] = "pop_wait" /\ pc'[t] # "pop_wait") =>
                  \/ Len(pushed') = Len(pushed) + 1
                  \/ ~shutting_down /\ shutting_down'
         ]_vars
    /\ [](shutting_down =>
             /\ cond_empty = {}
             /\ \A t \in Workers : pc[t] # "pop_wait")

\* a pop called after shutdown was set and the buffer had run empty has
\* returned NULL; lines had gone through the buffer before
PopStepwiseSeen ==
    \E t \in Workers :
        /\ pc[t] = "pop_ret"
        /\ hist.late[t]
        /\ ~hist.deq[t]
        /\ pop_result[t] = NULL
        /\ Len(popped) >= 1
        /\ hist.sdWoke # {}

\* C8: when pthread_create fails for worker i > 0, the workers already
\* started run to completion, main joins them and the failure path ends.
C8_FailurePathEnds ==
    (pc[MainT] = "m_failjoin" /\ i > 0) ~> (pc[MainT] = "m_exit_fail")

\* C9: buffer_signal_shutdown only ever turns shutting_down on; a call leaves
\* count, head, tail and the stored lines alone; a call made when the flag is
\* already set changes nothing in the buffer; every thread parked in
\* buffer_push or buffer_pop when the call is made is woken, and from then on
\* nobody is parked; a push woken that way returns false without storing its
\* line, a pop woken that way returns NULL or a buffered line, and each of
\* them does return.
C9_Shutdown ==
    /\ [][shutting_down => shutting_down']_vars
    /\ [][\A t \in Threads :
            (pc[t] = "sd_body" /\ pc'[t] = "sd_ret") =>
                /\ shutting_down'
                /\ UNCHANGED <<lines, count, head, tail, pushed, popped>>
                /\ cond_full' = {} /\ cond_empty' = {}
                /\ \A x \in Threads :
                      /\ pc[x] = "push_wait" => pc'[x] = "push_woken"
                      /\ pc[x] = "pop_wait" => pc'[x] = "pop_woken"
                /\ shutting_down =>
                      /\ UNCHANGED <<bufv, cond_full, cond_empty>>
                      /\ \A x \in Threads \ {t} : pc'[x] = pc[x]
         ]_vars
    /\ [][\A t \in hist.sdWoke :
            /\ (pc[t] \in {"push_woken", "push_after"}
                   /\ pc'[t] \notin {"push_woken", "push_after"}) =>
                  /\ pc'[t] = "push_ret"
                  /\ ~push_result'
                  /\ UNCHANGED <<pushed, lines, count, tail>>
            /\ (pc[t] \in {"pop_woken", "pop_after", "pop_top"}
                   /\ pc'[t] = "pop_ret") =>
                  \/ pop_result'[t] = NULL /\ count = 0 /\ count' = 0
                  \/ pop_result'[t] = Window[1] /\ count' = count - 1
         ]_vars
    /\ [](shutting_down =>
             /\ cond_full = {} /\ cond_empty = {}
             /\ \A t \in Threads : pc[t] \notin {"push_wait", "pop_wait"})
    /\ \A t \in Threads :
          (t \in hist.sdWoke /\ pc[t] \in {"push_woken", "pop_woken"})
              ~> (pc[t] \in {"push_ret", "pop_ret"})

\* C9 witness: the producer was parked on a full buffer when shutdown was
\* signalled and its push has returned false, and a second call of
\* buffer_signal_shutdown is about to set the flag again
C9_Witness ==
    /\ MainT \in hist.sdWoke
    /\ pc[MainT] = "push_ret"
    /\ ~push_result
    /\ pc[CtlT] = "sd_body"
    /\ shutting_down

\* C10: when the interrupt comes while the producer is parked in buffer_push
\* on a full buffer, that push returns false (its line is never stored),
\* every worker then leaves its loop on shutdown with nothing buffered, and
\* the total is the sum of the counts the workers had reached.
C10_InterruptedPushFails ==
    hist.sigAtPush # 0 =>
        /\ Occ(hist.sigAtPush, pushed) = 0
        /\ \A w \in Workers : pc[w] \in LeftLoop => ~hist.deq[w]
        /\ RunDone =>
              g_total_matches_summary = SumOver(local_matches, Workers)

\* the lines of the log read so far that contain the search term
MatchingRead ==
    {r \in 1 .. Len(file) : Strstr(Chomp(log[r]), g_search_term)}

\* C11: in a run in which the interrupt flag is never set and shutdown is never
\* signalled, the total printed is the number of lines read from the file that
\* contain the search term, whichever worker got which line.
C11_TotalIsMatchCount ==
    (RunDone /\ sigint_received_flag = 0 /\ ~shutting_down) =>
        /\ g_total_matches_summary = Cardinality(MatchingRead)
        /\ Len(popped) = Len(file) + NumWorkers

\* C11 witness: three lines of which only the second matches have gone through
\* the buffer and the total is 1: a worker that counted nothing is summed too
C11_Witness ==
    /\ RunDone
    /\ sigint_received_flag = 0
    /\ ~shutting_down
    /\ Len(file) = MaxRecords
    /\ Cardinality(MatchingRead) = 1
    /\ g_total_matches_summary = 1
    /\ \E w \in Workers : local_matches[w] = 0

\* C12 as stated: without shutdown, a buffer_push called while
\* count < capacity and a buffer_pop called while count > 0 never wait on a
\* condition variable.
C12_IssuedWithRoomNeverWaits ==
    /\ \A w \in Workers :
          (hist.issued[w] /\ ~shutting_down) =>
              pc[w] \notin {"pop_wait", "pop_woken", "pop_after"}
    /\ (pc[MainT] = "push_wait" /\ ~shutting_down) => count = Capacity

\* C12, amended: without shutdown, a buffer_push that finds count < capacity
\* and a buffer_pop that finds count > 0 at their loop test do not wait on a
\* condition variable: a call starts to wait only on a full buffer (push) or
\* an empty one (pop); a push by the one producer called while
\* count < capacity still finds room when it gets the mutex; a buffer_pop
\* called while count > 0 waits only if another thread has dequeued between
\* its call and its loop test; so lines pushed and popped in turn go through
\* with no call ever waiting.
C12_NoWaitWithRoom ==
    /\ [](\A w \in Workers :
             /\ hist.overtaken[w] => hist.issued[w]
             /\ (hist.issued[w] /\ ~hist.overtaken[w]) =>
                   pc[w] \in {"pop_lock", "pop_top"}
             /\ (hist.issued[w] /\ ~hist.overtaken[w] /\ pc[w] = "pop_top") =>
                   count > 0)
    /\ [][\A t \in Threads :
            /\ (pc[t] # "push_wait" /\ pc'[t] = "push_wait") =>
                  (pc[t] = "push_top" /\ count = Capacity /\ ~shutting_down)
            /\ (pc[t] # "pop_wait" /\ pc'[t] = "pop_wait") =>
                  (pc[t] = "pop_top" /\ count = 0 /\ ~shutting_down)
            /\ (pc[t] = "push_top" /\ pc'[t] # "push_top" /\ count < Capacity) =>
                  (pc'[t] = "push_ret" /\ push_result' /\ count' = count + 1)
            /\ (pc[t] = "pop_top" /\ pc'[t] # "pop_top" /\ count > 0) =>
                  (pc'[t] = "pop_ret" /\ count' = count - 1)
         ]_vars
    /\ [][(pc[MainT] \in {"push_lock", "push_top"} /\ count < Capacity) =>
             /\ pc'[MainT] # "push_wait"
             /\ pc'[MainT] \in {"push_lock", "push_top"} => count' < Capacity
         ]_vars
    /\ [](~hist.waited =>
             /\ cond_full = {} /\ cond_empty = {}
             /\ \A t \in Threads :
                   pc[t] \notin {"push_wait", "push_woken", "push_after",
                                 "pop_wait", "pop_woken", "pop_after"})

\* the case the amendment of C12 is about: a buffer_pop called while a line
\* was buffered is parked, without shutdown, because the other consumer took
\* the line first
PopOvertakenSeen ==
    \E w \in Workers :
        /\ pc[w] = "pop_wait"
        /\ hist.issued[w]
        /\ hist.overtaken[w]
        /\ ~shutting_down
        /\ count = 0

\* C12 witness: every line has been pushed and popped again, one after the
\* other through each slot, without shutdown and without any call having waited
C12_Witness ==
    /\ ~hist.waited
    /\ ~shutting_down
    /\ Len(pushed) = MaxRecords
    /\ popped = pushed
    /\ \A w \in Workers : pc[w] = "pop_ret" /\ hist.deq[w]

\* C13: a worker writes worker_match_counts once, into the slot of its own
\* id, after its loop and before it calls pthread_barrier_wait; when the
\* serial thread adds the slots up, every worker has written its slot, which
\* then holds that worker's final count.
C13_SlotsWrittenBeforeSum ==
    /\ [](\A w \in Workers :
             /\ hist.written[w] <= 1
             /\ hist.written[w] = 1 <=> pc[w] \in LeftLoop
             /\ hist.written[w] = 0 => worker_match_counts[w] = 0
             /\ hist.written[w] = 1 => worker_match_counts[w] = local_matches[w])
    /\ []((\E s \in Workers : pc[s] = "w_serial") =>
             \A w \in Workers :
                 /\ hist.written[w] = 1
                 /\ pc[w] \in {"w_serial", "w_done"}
                 /\ worker_match_counts[w] = local_matches[w])
    /\ [][\A w \in Workers :
            /\ worker_match_counts'[w] # worker_match_counts[w] =>
                  (pc[w] = "pop_ret" /\ pc'[w] = "w_arrive")
            /\ hist.written'[w] # hist.written[w] =>
                  (pc[w] = "pop_ret" /\ pc'[w] = "w_arrive")
            /\ pc[w] \in LeftLoop => local_matches'[w] = local_matches[w]
         ]_vars

\* C13 witness: the serial thread is about to add the slots up and another
\* worker's slot holds a count above zero
C13_Witness ==
    \E s \in Workers :
        /\ pc[s] = "w_serial"
        /\ g_total_matches_summary = 0
        /\ \E w \in Workers \ {s} : worker_match_counts[w] > 0

\* C14: the flag the interrupt sets and the flag the buffer's wait loops read
\* are one: whenever sigint_received_flag is set, shutting_down is set, and
\* from then on no thread starts to wait or stays parked in buffer_pop or
\* buffer_push. (The moments in which main, having set the flag itself, is
\* inside buffer_signal_shutdown are left out of the statement.)
C14_OneShutdownFlag ==
    (sigint_received_flag # 0 /\ pc[MainT] \notin {"sd_lock", "sd_body"}) =>
        /\ shutting_down
        /\ cond_empty = {} /\ cond_full = {}
        /\ \A t \in Threads : pc[t] \notin {"pop_wait", "push_wait"}

\* main is past its read loop (or never entered it): what is left is the
\* shutdown signal of main.c:228-230, the NULL pushes and the joins
FeedingOver ==
    \/ pc[MainT] \in {"m_post", "m_join", "m_done"}
    \/ site \in {"sigint_break", "fopen_fail", "else", "post", "eof"}

\* in the program no buffer_push of a line ever returns false
RecordPushNeverRefused ==
    (pc[MainT] = "push_ret" /\ site = "rec") => push_result

\* C15: main tests the flag before the push of every line; once it has seen
\* the flag set, or a push of a line has returned false, it pushes no further
\* line, signals shutdown on the buffer and goes on to the NULL pushes; so no
\* line is stored after shutting_down is set.
C15_ProducerStops ==
    /\ [][(pc'[MainT] = "push_lock" /\ site' = "rec" /\ pc[MainT] # "push_lock") =>
             (pc[MainT] = "m_check" /\ sigint_received_flag = 0
                 /\ ~shutting_down /\ line_to_push' = Len(file))]_vars
    /\ [][(pc[MainT] = "m_check" /\ sigint_received_flag # 0
              /\ pc'[MainT] # "m_check") =>
             (pc'[MainT] = "sd_lock" /\ site' = "sigint_break")]_vars
    /\ [][(pc[MainT] = "push_ret" /\ site = "rec" /\ ~push_result
              /\ pc'[MainT] # "push_ret") =>
             pc'[MainT] = "m_post"]_vars
    /\ [][FeedingOver =>
             /\ FeedingOver'
             /\ file' = file
             /\ pushed' = pushed \/ pushed' = Append(pushed, NULL)]_vars
    /\ [][shutting_down =>
             (pushed' = pushed \/ pushed' = Append(pushed, NULL))]_vars
    /\ []((site = "sigint_break" /\ pc[MainT] = "sd_ret") => shutting_down)
    /\ (site = "sigint_break") ~> (site = "eof" /\ shutting_down)

\* C15 witness: main saw the flag at the test before the push of its last
\* line, after earlier lines had been pushed; that line was never pushed, and
\* main is now pushing NULLs under shutdown
C15_Witness ==
    /\ site = "eof"
    /\ shutting_down
    /\ Len(file) = MaxRecords
    /\ freed[MaxRecords] = <<ByMain>>
    /\ Occ(MaxRecords, pushed) = 0
    /\ Occ(MaxRecords - 1, pushed) = 1
    /\ Occ(NULL, pushed) >= 1

\* thread t is between pthread_mutex_lock and the unlock or wait that follows
InCritical(t) ==
    pc[t] \in {"push_top", "push_after", "pop_top", "pop_after", "sd_body"}

\* C16: the buffer's mutex is held only inside the critical sections of
\* buffer_push, buffer_pop and buffer_signal_shutdown: by one thread at most;
\* not by a thread that has returned from one of them, whatever the return
\* path; not by a thread waiting on a condition variable; not by a worker that
\* has left its loop, waits at the barrier or has ended; not by main while it
\* joins.
C16_MutexOnlyInCritical ==
    /\ Cardinality({t \in Threads : InCritical(t)}) <= 1
    /\ \A t \in Threads :
          /\ mutex = t <=> InCritical(t)
          /\ pc[t] \in {"push_ret", "pop_ret", "sd_ret"} => mutex # t
          /\ pc[t] \in {"push_wait", "pop_wait", "push_woken", "pop_woken"}
                => mutex # t
          /\ pc[t] \in {"w_arrive", "w_inbarrier", "w_serial", "w_done",
                        "m_join", "m_failjoin", "m_done", "m_exit_fail"}
                => mutex # t
    /\ (\E t \in Threads : pc[t] \in {"w_inbarrier", "m_join", "m_failjoin"}
                             /\ mutex # NoThread)
          => InCritical(mutex)

\* C16 witness: a worker waits at the barrier and main is in its join loop
\* while the other worker is inside the critical section of buffer_pop, woken
\* from a wait
C16_Witness ==
    /\ \E w \in Workers : pc[w] = "w_inbarrier"
    /\ pc[MainT] = "m_join"
    /\ \E w \in Workers : pc[w] = "pop_after" /\ mutex = w

\* main has joined every worker and is at, or past, buffer_destroy
AtTeardown ==
    \/ pc[MainT] = "m_join" /\ i = NumWorkers
    \/ pc[MainT] = "m_done"

\* C17: in a run in which shutdown is never signalled, main pushes one NULL per
\* worker after its last line and every one of these pushes returns true;
\* every worker leaves its loop on a NULL it has popped, one each; and at
\* buffer_destroy everything pushed has been popped and count is 0.
C17_OneSentinelEach ==
    /\ [](~shutting_down =>
             /\ (pc[MainT] = "push_ret" /\ site = "eof") => push_result
             /\ \A w \in Workers :
                   pc[w] \in LeftLoop => (hist.deq[w] /\ pop_result[w] = NULL)
             /\ Occ(NULL, popped) =
                   Cardinality({w \in Workers :
                                   \/ pc[w] \in LeftLoop
                                   \/ /\ pc[w] = "pop_ret"
                                      /\ hist.deq[w] /\ pop_result[w] = NULL})
             /\ Occ(NULL, pushed) <= NumWorkers
             /\ \A n \in 1 .. Len(pushed) :
                   pushed[n] = NULL => \A m \in n .. Len(pushed) : pushed[m] = NULL
             /\ AtTeardown =>
                   /\ Occ(NULL, pushed) = NumWorkers
                   /\ popped = pushed
                   /\ Len(pushed) = Len(file) + NumWorkers
                   /\ count = 0)
    /\ [][\A w \in Workers : pc[w] \in LeftLoop => pc'[w] \in LeftLoop]_vars

\* C17 witness: the whole file went through, shutdown was never signalled and
\* the flag never set, main is about to destroy the buffer, and the NULLs had
\* to wait for room behind the lines
C17_Witness ==
    /\ pc[MainT] = "m_join"
    /\ i = NumWorkers
    /\ ~shutting_down
    /\ sigint_received_flag = 0
    /\ Len(file) = MaxRecords
    /\ Occ(NULL, popped) = NumWorkers
    /\ hist.waited

\* the lines a buffer_push has stored that contain the search term
MatchingPushed ==
    {r \in Records : Occ(r, pushed) = 1 /\ Strstr(Chomp(log[r]), g_search_term)}

\* C18: in every run in which all workers were started, interrupted or not,
\* every line a buffer_push has stored is popped, searched and freed by a
\* worker before that worker leaves its loop; once a worker has left its loop
\* the buffer holds nothing but NULLs; and when main has joined the workers
\* the buffer holds only NULLs, if anything, and the total is the number of
\* stored lines that contain the search term.
C18_AcceptedLinesAreCounted ==
    /\ \A r \in Records :
          (Occ(r, popped) = 1 /\ freed[r] = <<>>) =>
              \E w \in Workers : pc[w] = "pop_ret" /\ pop_result[w] = r
    /\ ((\E w \in Workers : pc[w] \in LeftLoop)
           /\ pc[MainT] \notin {"m_done", "m_exit_fail"}) =>
          \A n \in 1 .. count : Window[n] = NULL
    /\ (pc[MainT] = "m_join" /\ i = NumWorkers) =>
          /\ \A n \in 1 .. count : Window[n] = NULL
          /\ \A r \in Records :
                Occ(r, pushed) = 1 =>
                    (Occ(r, popped) = 1 /\ freed[r] = <<ByWorker>>)
          /\ g_total_matches_summary = Cardinality(MatchingPushed)

\* C18 witness: after an interrupt that cut the file short, main has joined
\* the workers; lines stored before the interrupt were counted, a worker left
\* on shutdown with nothing buffered, and a NULL is still in the buffer
C18_Witness ==
    /\ pc[MainT] = "m_join"
    /\ i = NumWorkers
    /\ shutting_down
    /\ count > 0
    /\ Cardinality({r \in Records : Occ(r, pushed) = 1}) = MaxRecords - 1
    /\ g_total_matches_summary >= 1
    /\ \E w \in Workers : ~hist.deq[w]

\* how many lines buffer_push has stored
LinesStored == Len(pushed) - Occ(NULL, pushed)

\* the flag is set, and main has made its last test of it (main.c:228)
\* without seeing it set
LateFlag ==
    /\ sigint_received_flag # 0
    /\ ~shutting_down
    /\ site = "eof" \/ pc[MainT] \in {"m_join", "m_done"}

\* C19: once sigint_handler has set the flag, main stores at most one more
\* line, the one whose flag test had already been passed, before it stops
\* feeding; and when the flag is set only after main's last test of it,
\* shutdown is never signalled on the buffer and the run ends through the
\* NULLs alone, one popped by each worker.
C19_AtMostOneMoreLine ==
    /\ [](hist.recAtSig >= 0 => LinesStored <= hist.recAtSig + 1)
    /\ [][(sigint_received_flag # 0 /\ LinesStored' > LinesStored) =>
             (site = "rec" /\ pc[MainT] \in {"push_top"}
                 /\ line_to_push = Len(file))]_vars
    /\ [][LateFlag => LateFlag']_vars
    /\ LateFlag ~> (/\ RunDone
                    /\ ~shutting_down
                    /\ popped = pushed
                    /\ Occ(NULL, popped) = NumWorkers
                    /\ \A w \in Workers : hist.deq[w])

\* C19 witness: the interrupt came after one line had been stored, while the
\* push of the second was under way; that one was stored too, the third was
\* read but not pushed, and main is at the NULL pushes under shutdown
C19_Witness ==
    /\ hist.recAtSig = 1
    /\ LinesStored = 2
    /\ Len(file) = MaxRecords
    /\ freed[MaxRecords] = <<ByMain>>
    /\ site = "eof"
    /\ shutting_down

\* the other case of C19: the flag was set after main's last test of it and
\* the run has ended without shutdown
LateFlagRunEnded ==
    /\ LateFlag
    /\ RunDone
    /\ hist.recAtSig = Len(file)

\* worker w will look at the buffer again without having to be woken
PopUnderWay(w) ==
    \/ pc[w] \in {"pop_lock", "pop_top", "pop_woken", "pop_after"}
    \/ pc[w] = "pop_ret" /\ pop_result[w] # NULL

\* C20: waking one waiter per push and per pop loses no wakeup: the buffer is
\* never non-empty while workers are parked in buffer_pop and none of the
\* others is woken or on its way to the buffer; the producer is never parked
\* in buffer_push while the buffer has room; and a parked pop and a parked
\* push do return in the end.
C20_NoLostWakeup ==
    /\ []((count > 0 /\ cond_empty # {}) =>
             \E w \in Workers : PopUnderWay(w))
    /\ [](\A t \in Threads : pc[t] = "pop_wait" <=> t \in cond_empty)
    /\ [](\A t \in Threads : pc[t] = "push_wait" <=> t \in cond_full)
    /\ [](pc[MainT] = "push_wait" => count = Capacity)
    /\ [](cond_full # {} => cond_empty = {})
    /\ \A w \in Workers : (pc[w] = "pop_wait") ~> (pc[w] = "pop_ret")
    /\ (pc[MainT] = "push_wait") ~> (pc[MainT] = "push_ret")

\* C20 witness: both workers were parked on the empty buffer, a push has
\* stored a line and woken one of them; the other stays parked
C20_Witness ==
    /\ ~shutting_down
    /\ count = 1
    /\ Len(popped) >= 1
    /\ \E w \in Workers : pc[w] = "pop_woken"
    /\ \E w \in Workers : pc[w] = "pop_wait"

====
